---- MODULE Spec2Model ----
(***************************************************************************)
(* CRUD request lifecycle of the task / item / user HTTP API.              *)
(*                                                                         *)
(*   src/2_fastpapi_db.py                       the Task application       *)
(*   src/fastapi-guide/assets/production/app    the Item / User application*)
(*                                                                         *)
(* A column value or a request-body value is NULL (Python None, SQL NULL)  *)
(* or Some(v).  A request body is a function from the names of the fields  *)
(* the client sent (pydantic's model_fields_set) to their values, so a     *)
(* field that is absent, a field sent as null and a field sent with a value*)
(* are three different things.  Prices stand for floats; only their order  *)
(* relative to 0 matters to the code.                                      *)
(*                                                                         *)
(* The Task application and the Item / User application are two programs   *)
(* with a database each, and no /items handler touches table user nor a    *)
(* /users handler table item (Item.owner_id is never assigned), so one     *)
(* behaviour drives the endpoints of one router.  The store is SQLite, the *)
(* default of both configurations.                                         *)
(*                                                                         *)
(*   Spec      one client, one request at a time, all CRUD endpoints       *)
(*   SpecList  the List endpoints over tables of up to MaxStored rows      *)
(*   SpecConc  POST /users/ and DELETE /users/{id} in flight together      *)
(***************************************************************************)
EXTENDS Integers, Sequences, FiniteSets, TLC

VARIABLES
    router,     \* the endpoint family the client drives: "tasks" | "items" | "users"
    tasks,      \* table task:  id -> row
    items,      \* table item:  id -> row
    users,      \* table user:  id -> row
    req,        \* the request whose response is outstanding, or NoReq
    resp,       \* its response, or NoResp
    pre,        \* the tables as they were when the request arrived, or NoPre
    gone,       \* ids whose row a Delete removed and no Create has stored since
    pc,         \* concurrent requests: where each one is in its handler
    creq,       \* concurrent requests: what each one asks for
    cresp,      \* concurrent requests: the status each one was answered with
    raised,     \* concurrent requests: the status of the exception under way, or 0
    sess,       \* concurrent requests: the session get_session gave each one
    open,       \* the sessions that are open
    nsessions   \* how many sessions get_session has created

client == <<req, resp, pre, gone>>
workers == <<pc, creq, cresp, raised, sess, open, nsessions>>
vars == <<router, tasks, items, users, client, workers>>

----------------------------------------------------------------------------
(* Bounds of the model *)

\* ids the store hands out, and ids a client asks for, are 1..MaxId
MaxId == 2

(* Program constants *)

\* rows in the tables that the List requests of SpecList read
MaxStored == 150

\* requests in flight at once in SpecConc
MaxRequests == 2

\* sessions get_session creates in one behaviour of SpecConc
MaxSessions == 2

(* Program constants *)

\* items.py:25, users.py:46  Query(default=100, le=100)
MaxLimit == 100

----------------------------------------------------------------------------
(* Values *)

NULL == <<>>
Some(v) == <<v>>

Names == {"a", "b"}
Descriptions == {"d"}
Prices == {0, 1}
Usernames == {"u1", "u2"}
Emails == {"e1", "e2"}
Passwords == {"p1", "p2"}
Titles == {"t1", "t2"}

\* What a client may put in one field: nothing, null, or a value of V.
Unset == <<>>
Sent(V, nullable) ==
    {<<Some(v)>> : v \in V} \cup (IF nullable THEN {<<NULL>>} ELSE {})
Opt(V, nullable) == {Unset} \cup Sent(V, nullable)

\* The one-field body holding option o under name f (empty when o is Unset).
Part(f, o) == [x \in (IF o = Unset THEN {} ELSE {f}) |-> o[1]]

Ids == 1..MaxId
Requests == 1..MaxRequests

NoReq == [op |-> "none"]
NoResp == [status |-> 0, body |-> <<>>, detail |-> ""]
NoPre == [tasks |-> <<>>, items |-> <<>>, users |-> <<>>]

Max(S) == CHOOSE m \in S : \A x \in S : x <= m

\* SQLite rowid assignment for an INTEGER PRIMARY KEY left NULL on insert.
NextId(table) == IF DOMAIN table = {} THEN 1 ELSE Max(DOMAIN table) + 1

\* The rows of a table in the store's natural order (ascending rowid).
Rows(table) ==
    LET ids == DOMAIN table
        Nth(k) == CHOOSE i \in ids : Cardinality({j \in ids : j < i}) = k - 1
    IN [k \in 1..Cardinality(ids) |-> [id |-> Nth(k), row |-> table[Nth(k)]]]

\* SELECT ... OFFSET offset LIMIT limit on SQLite: a negative OFFSET counts as
\* 0, a negative LIMIT is no limit.
OffsetLimit(rows, offset, limit) ==
    LET off == IF offset < 0 THEN 0 ELSE offset
        rest == SubSeq(rows, off + 1, Len(rows))
    IN IF limit < 0 \/ limit >= Len(rest) THEN rest ELSE SubSeq(rest, 1, limit)

Insert(table, id, row) == [i \in DOMAIN table \cup {id} |-> IF i = id THEN row ELSE table[i]]
Remove(table, id) == [i \in DOMAIN table \ {id} |-> table[i]]

\* sqlmodel_update(data): every key of data that is a field of the row is
\* assigned; the other fields of the row are left alone.
sqlmodel_update(row, data) ==
    [f \in DOMAIN row |-> IF f \in DOMAIN data THEN data[f] ELSE row[f]]

Response(status, body, detail) == [status |-> status, body |-> body, detail |-> detail]

----------------------------------------------------------------------------
(* Item: models/item.py, routers/items.py *)

ItemBodies ==
    {Part("name", n) @@ Part("description", d) @@ Part("price", p) :
        n \in Opt(Names, FALSE), d \in Opt(Descriptions, TRUE), p \in Opt(Prices, TRUE)}

\* ItemBase as a request schema: name: str, description: Optional[str] = None,
\* price: float = Field(gt=0).
ItemBase_valid(body) ==
    /\ "name" \in DOMAIN body /\ body["name"] # NULL
    /\ "price" \in DOMAIN body /\ body["price"] # NULL /\ body["price"][1] > 0

\* ItemUpdate: every field Optional with default None, and no constraint.
ItemUpdate_valid(body) == DOMAIN body \subseteq {"name", "description", "price"}

\* Item.model_validate(item): the table row built from an ItemCreate.
Item_model_validate(body) ==
    [name |-> body["name"],
     description |-> IF "description" \in DOMAIN body THEN body["description"] ELSE NULL,
     price |-> body["price"],
     owner_id |-> NULL]

\* The NOT NULL columns of table item (description and owner_id are Optional).
Item_constraints(row) == row.name # NULL /\ row.price # NULL

\* ItemPublic, the response model: ItemBase's fields and constraints, plus id.
ItemPublic(id, row) ==
    [id |-> id, name |-> row.name, description |-> row.description,
     price |-> row.price, owner_id |-> row.owner_id]
ItemPublic_valid(row) == row.name # NULL /\ row.price # NULL /\ row.price[1] > 0

\* FastAPI's serialisation of what a handler returned under
\* response_model=ItemPublic (or list[ItemPublic]): a row that does not
\* validate is a ResponseValidationError, HTTP 500.
ItemResponse(status, rows) ==
    IF \A i \in 1..Len(rows) : ItemPublic_valid(rows[i].row)
    THEN Response(status, [i \in 1..Len(rows) |-> ItemPublic(rows[i].id, rows[i].row)], "")
    ELSE Response(500, <<>>, "ResponseValidationError")

create_item(table, body) ==
    IF ~ItemBase_valid(body)
    THEN [table |-> table, resp |-> Response(422, <<>>, "ValidationError")]
    ELSE LET db_item == Item_model_validate(body)
             id == NextId(table)
         IN [table |-> Insert(table, id, db_item),
             resp |-> ItemResponse(201, <<[id |-> id, row |-> db_item]>>)]

read_items(table, offset, limit) ==
    IF limit > MaxLimit
    THEN [table |-> table, resp |-> Response(422, <<>>, "ValidationError")]
    ELSE [table |-> table,
          resp |-> ItemResponse(200, OffsetLimit(Rows(table), offset, limit))]

read_item(table, item_id) ==
    IF item_id \notin DOMAIN table
    THEN [table |-> table, resp |-> Response(404, <<>>, "Item not found")]
    ELSE [table |-> table,
          resp |-> ItemResponse(200, <<[id |-> item_id, row |-> table[item_id]]>>)]

update_item(table, item_id, body) ==
    IF ~ItemUpdate_valid(body)
    THEN [table |-> table, resp |-> Response(422, <<>>, "ValidationError")]
    ELSE IF item_id \notin DOMAIN table
    THEN [table |-> table, resp |-> Response(404, <<>>, "Item not found")]
    ELSE LET db_item == sqlmodel_update(table[item_id], body)
         IN IF ~Item_constraints(db_item)
            THEN [table |-> table, resp |-> Response(500, <<>>, "IntegrityError")]
            ELSE [table |-> Insert(table, item_id, db_item),
                  resp |-> ItemResponse(200, <<[id |-> item_id, row |-> db_item]>>)]

delete_item(table, item_id) ==
    IF item_id \notin DOMAIN table
    THEN [table |-> table, resp |-> Response(404, <<>>, "Item not found")]
    ELSE [table |-> Remove(table, item_id), resp |-> Response(200, <<>>, "ok")]

----------------------------------------------------------------------------
(* User: models/user.py, routers/users.py *)

UserBodies ==
    {Part("username", n) @@ Part("email", e) @@ Part("password", p) @@ Part("is_active", a) :
        n \in Opt(Usernames, TRUE), e \in Opt(Emails, FALSE),
        p \in Opt(Passwords, FALSE), a \in Opt(BOOLEAN, FALSE)}

\* app.services.auth.get_password_hash: the digest stored for a plaintext.
get_password_hash(password) == [digest_of |-> password]

\* UserCreate: username: str, email: str, is_active: bool = True, password: str.
UserCreate_valid(body) ==
    /\ "username" \in DOMAIN body /\ body["username"] # NULL
    /\ "email" \in DOMAIN body /\ body["email"] # NULL
    /\ "password" \in DOMAIN body /\ body["password"] # NULL
    /\ "is_active" \in DOMAIN body => body["is_active"] # NULL

\* The lookup with the wrong column in its where clause.
UsernameRegistered_by_email(table, username) ==
    \E i \in DOMAIN table : table[i].email = username

\* select(User).where(User.username == username).first() found a row
UsernameRegistered(table, username) ==
    \E i \in DOMAIN table : table[i].username = username

\* select(User).where(User.email == email).first() found a row
EmailRegistered(table, email) ==
    \E i \in DOMAIN table : table[i].email = email

\* User(username=..., email=..., hashed_password=...): is_active is not
\* passed, so the row takes UserBase's default, True.
NewUser(body) ==
    [username |-> body["username"],
     email |-> body["email"],
     is_active |-> Some(TRUE),
     hashed_password |-> Some(get_password_hash(body["password"][1]))]

\* Table user at commit: every column NOT NULL, username and email UNIQUE.
User_constraints(table, id, row) ==
    /\ row.username # NULL /\ row.email # NULL
    /\ row.is_active # NULL /\ row.hashed_password # NULL
    /\ \A i \in DOMAIN table \ {id} :
          table[i].username # row.username /\ table[i].email # row.email

\* UserPublic, the response model: UserBase's fields plus id, no password.
UserPublic(id, row) ==
    [id |-> id, username |-> row.username, email |-> row.email,
     is_active |-> row.is_active]

UserResponse(status, rows) ==
    Response(status, [i \in 1..Len(rows) |-> UserPublic(rows[i].id, rows[i].row)], "")

create_user(table, body) ==
    IF ~UserCreate_valid(body)
    THEN [table |-> table, resp |-> Response(422, <<>>, "ValidationError")]
    ELSE IF UsernameRegistered(table, body["username"])
    THEN [table |-> table, resp |-> Response(400, <<>>, "Username already registered")]
    ELSE IF EmailRegistered(table, body["email"])
    THEN [table |-> table, resp |-> Response(400, <<>>, "Email already registered")]
    ELSE LET db_user == NewUser(body)
             id == NextId(table)
         IN IF ~User_constraints(table, id, db_user)
            THEN [table |-> table, resp |-> Response(500, <<>>, "IntegrityError")]
            ELSE [table |-> Insert(table, id, db_user),
                  resp |-> UserResponse(201, <<[id |-> id, row |-> db_user]>>)]

read_users(table, offset, limit) ==
    IF limit > MaxLimit
    THEN [table |-> table, resp |-> Response(422, <<>>, "ValidationError")]
    ELSE [table |-> table,
          resp |-> UserResponse(200, OffsetLimit(Rows(table), offset, limit))]

read_user(table, user_id) ==
    IF user_id \notin DOMAIN table
    THEN [table |-> table, resp |-> Response(404, <<>>, "User not found")]
    ELSE [table |-> table,
          resp |-> UserResponse(200, <<[id |-> user_id, row |-> table[user_id]]>>)]

\* user.model_dump(exclude_unset=True), with "password" replaced by
\* "hashed_password" when it is there.
user_data(body) ==
    [f \in (DOMAIN body \ {"password"}) \cup
           (IF "password" \in DOMAIN body THEN {"hashed_password"} ELSE {}) |->
        IF f = "hashed_password"
        THEN Some(get_password_hash(body["password"][1]))
        ELSE body[f]]

update_user(table, user_id, body) ==
    IF user_id \notin DOMAIN table
    THEN [table |-> table, resp |-> Response(404, <<>>, "User not found")]
    ELSE LET db_user == sqlmodel_update(table[user_id], user_data(body))
         IN IF ~User_constraints(table, user_id, db_user)
            THEN [table |-> table, resp |-> Response(500, <<>>, "IntegrityError")]
            ELSE [table |-> Insert(table, user_id, db_user),
                  resp |-> UserResponse(200, <<[id |-> user_id, row |-> db_user]>>)]

delete_user(table, user_id) ==
    IF user_id \notin DOMAIN table
    THEN [table |-> table, resp |-> Response(404, <<>>, "User not found")]
    ELSE [table |-> Remove(table, user_id), resp |-> Response(200, <<>>, "ok")]

----------------------------------------------------------------------------
(* Task: 2_fastpapi_db.py *)

TaskBodies ==
    {Part("id", i) @@ Part("title", t) @@ Part("description", d) @@ Part("completed", c) :
        i \in Opt({1}, FALSE), t \in Opt(Titles, FALSE),
        d \in Opt(Descriptions, FALSE), c \in Opt(BOOLEAN, FALSE)}

\* Task as a request schema: title: str, description: str, completed: bool
\* are required; id defaults to None.
Task_valid(body) ==
    \A f \in {"title", "description", "completed"} :
        f \in DOMAIN body /\ body[f] # NULL

\* The Task object built from a body: a field the body lacks reads as None.
TaskOf(body) ==
    [f \in {"title", "description", "completed"} |->
        IF f \in DOMAIN body THEN body[f] ELSE NULL]

\* Table task at commit: title, description, completed NOT NULL.
Task_constraints(row) ==
    row.title # NULL /\ row.description # NULL /\ row.completed # NULL

TaskPublic(id, row) ==
    [id |-> id, title |-> row.title, description |-> row.description,
     completed |-> row.completed]

TaskResponse(status, rows) ==
    Response(status, [i \in 1..Len(rows) |-> TaskPublic(rows[i].id, rows[i].row)], "")

\* What the client gets when a handler declared with response_model=Task
\* returns something that is not a Task (a dict, an HTTPException object):
\* the route's own status code, 200, when the framework serialises it, and
\* 500 when it rejects it as a response validation error.  Which of the two
\* depends on the installed pydantic / SQLModel; lenient says which.
NotATask(lenient, detail) ==
    IF lenient THEN Response(200, <<>>, detail)
    ELSE Response(500, <<>>, "ResponseValidationError")

\* validated says whether the framework validates a body against the table
\* model Task before the handler runs (it depends on the installed pydantic /
\* SQLModel); when it does not, the handler runs on whatever was sent.
create_task(table, body, validated, lenient) ==
    IF validated /\ ~Task_valid(body)
    THEN [table |-> table, resp |-> Response(422, <<>>, "ValidationError")]
    ELSE LET task == TaskOf(body)
             id == IF "id" \in DOMAIN body THEN body["id"][1] ELSE NextId(table)
         IN IF id \in DOMAIN table \/ ~Task_constraints(task)
            THEN [table |-> table, resp |-> Response(500, <<>>, "IntegrityError")]
            ELSE [table |-> Insert(table, id, task),
                  resp |-> NotATask(lenient, "Task created successfully")]

\* No offset and no limit: every row of the table.
read_tasks(table) ==
    [table |-> table, resp |-> TaskResponse(200, Rows(table))]

\* The 404 is returned, not raised.
read_task(table, task_id, lenient) ==
    IF task_id \notin DOMAIN table
    THEN [table |-> table, resp |-> NotATask(lenient, "Task not found")]
    ELSE [table |-> table,
          resp |-> TaskResponse(200, <<[id |-> task_id, row |-> table[task_id]]>>)]

\* The 404 is returned, not raised; the route has no response_model, so the
\* returned object is serialised under the route's status code, 200.
delete_task(table, task_id) ==
    IF task_id \notin DOMAIN table
    THEN [table |-> table, resp |-> Response(200, <<>>, "Task not found")]
    ELSE [table |-> Remove(table, task_id),
          resp |-> Response(200, <<>>, "Task deleted successfully")]

update_task(table, task_id, body, validated, lenient) ==
    IF validated /\ ~Task_valid(body)
    THEN [table |-> table, resp |-> Response(422, <<>>, "ValidationError")]
    ELSE IF task_id \notin DOMAIN table
    THEN [table |-> table, resp |-> NotATask(lenient, "Task not found")]
    ELSE LET task == TaskOf(body)
         IN IF ~Task_constraints(task)
            THEN [table |-> table, resp |-> Response(500, <<>>, "IntegrityError")]
            ELSE [table |-> Insert(table, task_id, task),
                  resp |-> TaskResponse(200, <<[id |-> task_id, row |-> task]>>)]

----------------------------------------------------------------------------
(* The client: one request at a time, each answered before the next. *)

Tables == [tasks |-> tasks, items |-> items, users |-> users]

\* The ids a Delete has removed, after request r took table to table2.
Gone(table, table2, r) ==
    IF r.op = "delete" /\ r.id \in DOMAIN table \ DOMAIN table2
    THEN gone \cup {r.id}
    ELSE gone \ DOMAIN table2

\* A request to an /items endpoint is handled; out is what the handler did.
ItemsHandled(r, out) ==
    /\ router = "items"
    /\ req = NoReq
    /\ req' = r
    /\ pre' = Tables
    /\ items' = out.table
    /\ resp' = out.resp
    /\ gone' = Gone(items, out.table, r)
    /\ UNCHANGED <<router, tasks, users, workers>>

CreateItem ==
    \E body \in ItemBodies :
        /\ NextId(items) <= MaxId
        /\ ItemsHandled([op |-> "create", body |-> body], create_item(items, body))

Offsets == {-1, 0, 1, MaxStored - MaxLimit}
Limits == {-1, 0, 1, MaxLimit, MaxLimit + 1}

ReadItems ==
    \E offset \in Offsets, limit \in Limits :
        ItemsHandled([op |-> "list", offset |-> offset, limit |-> limit],
                     read_items(items, offset, limit))

ReadItem ==
    \E id \in Ids :
        ItemsHandled([op |-> "get", id |-> id], read_item(items, id))

UpdateItem ==
    \E id \in Ids, body \in ItemBodies :
        ItemsHandled([op |-> "update", id |-> id, body |-> body],
                     update_item(items, id, body))

DeleteItem ==
    \E id \in Ids :
        ItemsHandled([op |-> "delete", id |-> id], delete_item(items, id))

UsersHandled(r, out) ==
    /\ router = "users"
    /\ req = NoReq
    /\ req' = r
    /\ pre' = Tables
    /\ users' = out.table
    /\ resp' = out.resp
    /\ gone' = Gone(users, out.table, r)
    /\ UNCHANGED <<router, tasks, items, workers>>

CreateUser ==
    \E body \in UserBodies :
        /\ NextId(users) <= MaxId
        /\ UsersHandled([op |-> "create", body |-> body], create_user(users, body))

ReadUsers ==
    \E offset \in Offsets, limit \in Limits :
        UsersHandled([op |-> "list", offset |-> offset, limit |-> limit],
                     read_users(users, offset, limit))

ReadUser ==
    \E id \in Ids :
        UsersHandled([op |-> "get", id |-> id], read_user(users, id))

UpdateUser ==
    \E id \in Ids, body \in UserBodies :
        UsersHandled([op |-> "update", id |-> id, body |-> body],
                     update_user(users, id, body))

DeleteUser ==
    \E id \in Ids :
        UsersHandled([op |-> "delete", id |-> id], delete_user(users, id))

TasksHandled(r, out) ==
    /\ router = "tasks"
    /\ req = NoReq
    /\ req' = r
    /\ pre' = Tables
    /\ tasks' = out.table
    /\ resp' = out.resp
    /\ gone' = Gone(tasks, out.table, r)
    /\ UNCHANGED <<router, items, users, workers>>

CreateTask ==
    \E body \in TaskBodies, validated \in BOOLEAN, lenient \in BOOLEAN :
        /\ NextId(tasks) <= MaxId
        /\ TasksHandled([op |-> "create", body |-> body],
                        create_task(tasks, body, validated, lenient))

ReadTasks ==
    \E offset \in Offsets, limit \in Limits :
        TasksHandled([op |-> "list", offset |-> offset, limit |-> limit],
                     read_tasks(tasks))

ReadTask ==
    \E id \in Ids, lenient \in BOOLEAN :
        TasksHandled([op |-> "get", id |-> id], read_task(tasks, id, lenient))

UpdateTask ==
    \E id \in Ids, body \in TaskBodies, validated \in BOOLEAN, lenient \in BOOLEAN :
        TasksHandled([op |-> "update", id |-> id, body |-> body],
                     update_task(tasks, id, body, validated, lenient))

DeleteTask ==
    \E id \in Ids :
        TasksHandled([op |-> "delete", id |-> id], delete_task(tasks, id))

\* The response is delivered; the request is over.
Deliver ==
    /\ req # NoReq
    /\ req' = NoReq
    /\ resp' = NoResp
    /\ pre' = NoPre
    /\ UNCHANGED <<router, tasks, items, users, gone, workers>>

NoClient ==
    /\ req = NoReq
    /\ resp = NoResp
    /\ pre = NoPre
    /\ gone = {}

NoWorkers ==
    /\ pc = [r \in Requests |-> "idle"]
    /\ creq = [r \in Requests |-> NoReq]
    /\ cresp = [r \in Requests |-> 0]
    /\ raised = [r \in Requests |-> 0]
    /\ sess = [r \in Requests |-> 0]
    /\ open = {}
    /\ nsessions = 0

\* create_db_and_tables has run: the tables exist and are empty.
Init ==
    /\ router \in {"tasks", "items", "users"}
    /\ tasks = <<>>
    /\ items = <<>>
    /\ users = <<>>
    /\ NoClient
    /\ NoWorkers

Next ==
    \/ CreateTask
    \/ ReadTasks
    \/ ReadTask
    \/ UpdateTask
    \/ DeleteTask
    \/ CreateItem
    \/ ReadItems
    \/ ReadItem
    \/ UpdateItem
    \/ DeleteItem
    \/ CreateUser
    \/ ReadUsers
    \/ ReadUser
    \/ UpdateUser
    \/ DeleteUser
    \/ Deliver

Spec == Init /\ [][Next]_vars

----------------------------------------------------------------------------
(* List requests over tables of up to MaxStored rows. *)

StoredSizes == {0, 1, MaxLimit, MaxLimit + 1, MaxStored}

StoredTask(i) ==
    [title |-> Some("t1"), description |-> Some("d"), completed |-> Some(FALSE)]
StoredItem(i) ==
    [name |-> Some("a"), description |-> NULL, price |-> Some(1), owner_id |-> NULL]
StoredUser(i) ==
    [username |-> Some(ToString(i)), email |-> Some(ToString(i)),
     is_active |-> Some(TRUE), hashed_password |-> Some(get_password_hash("p1"))]

\* The tables after n Create requests to the router's endpoint.
InitList ==
    /\ router \in {"tasks", "items", "users"}
    /\ \E n \in StoredSizes :
        /\ tasks = IF router = "tasks" THEN [i \in 1..n |-> StoredTask(i)] ELSE <<>>
        /\ items = IF router = "items" THEN [i \in 1..n |-> StoredItem(i)] ELSE <<>>
        /\ users = IF router = "users" THEN [i \in 1..n |-> StoredUser(i)] ELSE <<>>
    /\ NoClient
    /\ NoWorkers

NextList ==
    \/ ReadTasks
    \/ ReadItems
    \/ ReadUsers
    \/ Deliver

SpecList == InitList /\ [][NextList]_vars

----------------------------------------------------------------------------
(* Requests to /users in flight at once, each on the session get_session    *)
(* gives it.  A step is one statement of the handler that reads or writes   *)
(* the store; the store runs each of them atomically.                       *)

ConcBodies ==
    {[username |-> Some(u), email |-> Some(e), password |-> Some("p1")] :
        u \in Usernames, e \in Emails}

ConcRequests ==
    {[op |-> "create", body |-> b] : b \in ConcBodies}
        \cup {[op |-> "delete", id |-> i] : i \in Ids}

\* A get_session that closes the session only after a handler that returned.
get_session_exit_on_return(opened, s, exc) == IF exc THEN opened ELSE opened \ {s}

\* get_session: leaving "with Session(engine) as session" closes the session,
\* whether the handler returned or raised.
get_session_exit(opened, s, exc) == opened \ {s}

\* The status of a handler that returned: status_code=201 on create_user,
\* the default 200 on delete_user.
ReturnStatus(r) == IF r.op = "create" THEN 201 ELSE 200

Goto(r, label) == pc' = [pc EXCEPT ![r] = label]

\* raise HTTPException(status) / an exception out of commit: the handler is
\* left and get_session's with block unwinds next.
Raise(r, status) ==
    /\ raised' = [raised EXCEPT ![r] = status]
    /\ Goto(r, "exit")

Arrive(r) ==
    /\ pc[r] \in {"idle", "done"}
    /\ nsessions < MaxSessions
    /\ \E q \in ConcRequests : creq' = [creq EXCEPT ![r] = q]
    /\ cresp' = [cresp EXCEPT ![r] = 0]
    /\ raised' = [raised EXCEPT ![r] = 0]
    /\ sess' = [sess EXCEPT ![r] = 0]
    /\ Goto(r, "get_session")
    /\ UNCHANGED <<router, tasks, items, users, client, open, nsessions>>

\* get_session: Session(engine) is entered and yielded to the handler.
Acquire(r) ==
    /\ pc[r] = "get_session"
    /\ nsessions' = nsessions + 1
    /\ sess' = [sess EXCEPT ![r] = nsessions + 1]
    /\ open' = open \cup {nsessions + 1}
    /\ Goto(r, IF creq[r].op = "create" THEN "check_username" ELSE "get")
    /\ UNCHANGED <<router, tasks, items, users, client, creq, cresp, raised>>

\* create_user, users.py:18-22
CheckUsername(r) ==
    /\ pc[r] = "check_username"
    /\ IF UsernameRegistered(users, creq[r].body["username"])
       THEN Raise(r, 400)
       ELSE Goto(r, "check_email") /\ UNCHANGED raised
    /\ UNCHANGED <<router, tasks, items, users, client, creq, cresp, sess, open, nsessions>>

\* create_user, users.py:25-27
CheckEmail(r) ==
    /\ pc[r] = "check_email"
    /\ IF EmailRegistered(users, creq[r].body["email"])
       THEN Raise(r, 400)
       ELSE Goto(r, "commit") /\ UNCHANGED raised
    /\ UNCHANGED <<router, tasks, items, users, client, creq, cresp, sess, open, nsessions>>

\* create_user, users.py:30-39: the INSERT is committed, or the table's
\* constraints refuse it and commit raises IntegrityError.
CommitUser(r) ==
    /\ pc[r] = "commit"
    /\ LET db_user == NewUser(creq[r].body)
           id == NextId(users)
       IN IF User_constraints(users, id, db_user)
          THEN /\ users' = Insert(users, id, db_user)
               /\ Goto(r, "exit")
               /\ UNCHANGED raised
          ELSE /\ Raise(r, 500)
               /\ UNCHANGED users
    /\ UNCHANGED <<router, tasks, items, client, creq, cresp, sess, open, nsessions>>

\* delete_user, users.py:83-85
GetUser(r) ==
    /\ pc[r] = "get"
    /\ IF creq[r].id \notin DOMAIN users
       THEN Raise(r, 404)
       ELSE Goto(r, "delete") /\ UNCHANGED raised
    /\ UNCHANGED <<router, tasks, items, users, client, creq, cresp, sess, open, nsessions>>

\* delete_user, users.py:86-88: the DELETE is committed, or it matches no
\* row any more and commit raises.
CommitDelete(r) ==
    /\ pc[r] = "delete"
    /\ IF creq[r].id \in DOMAIN users
       THEN /\ users' = Remove(users, creq[r].id)
            /\ Goto(r, "exit")
            /\ UNCHANGED raised
       ELSE /\ Raise(r, 500)
            /\ UNCHANGED users
    /\ UNCHANGED <<router, tasks, items, client, creq, cresp, sess, open, nsessions>>

\* get_session's with block is left and the response goes out.
Exit(r) ==
    /\ pc[r] = "exit"
    /\ open' = get_session_exit(open, sess[r], raised[r] # 0)
    /\ cresp' = [cresp EXCEPT ![r] = IF raised[r] # 0 THEN raised[r] ELSE ReturnStatus(creq[r])]
    /\ Goto(r, "done")
    /\ UNCHANGED <<router, tasks, items, users, client, creq, raised, sess, nsessions>>

InitConc ==
    /\ router = "users"
    /\ tasks = <<>>
    /\ items = <<>>
    /\ users = <<>>
    /\ NoClient
    /\ NoWorkers

NextConc ==
    \E r \in Requests :
        \/ Arrive(r)
        \/ Acquire(r)
        \/ CheckUsername(r)
        \/ CheckEmail(r)
        \/ CommitUser(r)
        \/ GetUser(r)
        \/ CommitDelete(r)
        \/ Exit(r)

SpecConc == InitConc /\ [][NextConc]_vars

----------------------------------------------------------------------------
(* Properties.  Before is the router's table when the outstanding request   *)
(* arrived, After the table now.                                            *)

Before == pre[router]
After == Tables[router]

\* The request names an id that no stored row has.
AbsentId == req.op \in {"get", "update", "delete"} /\ req.id \notin DOMAIN Before

\* The request's body is one its schema accepts.
WellFormed ==
    CASE req.op = "update" /\ router = "tasks" -> Task_valid(req.body)
      [] req.op = "create" /\ router = "tasks" -> Task_valid(req.body)
      [] req.op = "create" /\ router = "items" -> ItemBase_valid(req.body)
      [] req.op = "create" /\ router = "users" -> UserCreate_valid(req.body)
      [] OTHER -> TRUE

\* C1: Get, Update and Delete of an id that no stored record has are answered
\* 404, for Task, Item and User, whatever requests came before.
C1_AbsentIdIs404 ==
    (AbsentId /\ WellFormed) => resp.status = 404

\* A stored user other than those in skip holds value v in column f.
HeldBy(table, skip, f, v) == \E i \in DOMAIN table \ skip : table[i][f] = v

\* The outstanding request is a well-formed Create User whose username or
\* email a stored user already has.
DuplicateCreate ==
    /\ router = "users" /\ req.op = "create" /\ UserCreate_valid(req.body)
    /\ \/ HeldBy(pre.users, {}, "username", req.body["username"])
       \/ HeldBy(pre.users, {}, "email", req.body["email"])

NoSharedUnique(table) ==
    \A i, j \in DOMAIN table :
        i # j => table[i].username # table[j].username /\ table[i].email # table[j].email

\* C2: a Create User whose username (or email) a stored user already has is
\* answered 400 and stores nothing, so exactly one user keeps that username
\* (email); and no two stored users ever share a username or an email.
C2_DuplicateCreateRejected ==
    /\ DuplicateCreate =>
        /\ resp.status = 400
        /\ users = pre.users
        /\ \A f \in {"username", "email"} :
              HeldBy(pre.users, {}, f, req.body[f]) =>
                  Cardinality({i \in DOMAIN users : users[i][f] = req.body[f]}) = 1
    /\ NoSharedUnique(users)

\* A second Create with the first one's username was answered.
C2_Witness ==
    /\ DuplicateCreate
    /\ HeldBy(pre.users, {}, "username", req.body["username"])
    /\ ~HeldBy(pre.users, {}, "email", req.body["email"])
    /\ resp.status = 400

\* The outstanding request updates an existing user to a username or an
\* email that another stored user has.
ConflictingUpdate ==
    /\ router = "users" /\ req.op = "update" /\ req.id \in DOMAIN pre.users
    /\ \E f \in {"username", "email"} \cap DOMAIN req.body :
          HeldBy(pre.users, {req.id}, f, req.body[f])

\* C3: an Update of an existing user to a username or email that another
\* user has is answered 400 and changes no record.
C3_ConflictingUpdateIs400 ==
    ConflictingUpdate => resp.status = 400 /\ users = pre.users

\* The column a body field is stored in.
Column(f) == IF f = "password" THEN "hashed_password" ELSE f

UpdateOfExisting == req.op = "update" /\ req.id \in DOMAIN Before

\* C4: an Update of an existing record changes only the fields present in
\* the body: absent fields and the id keep their values and no other record
\* changes; with an empty body it succeeds and changes nothing.  For the
\* PATCH of Item and User and the PUT of Task.
C4_UpdateOnlySentFields ==
    UpdateOfExisting =>
        /\ DOMAIN After = DOMAIN Before
        /\ \A i \in DOMAIN After \ {req.id} : After[i] = Before[i]
        /\ \A f \in DOMAIN After[req.id] \ {Column(g) : g \in DOMAIN req.body} :
              After[req.id][f] = Before[req.id][f]
        /\ DOMAIN req.body = {} => resp.status = 200 /\ After = Before

\* The outstanding request would store a price that is not above 0.
BadPrice ==
    /\ router = "items" /\ req.op \in {"create", "update"}
    /\ "price" \in DOMAIN req.body
    /\ req.body["price"] # NULL /\ req.body["price"][1] <= 0

\* C5: every stored Item has price > 0; a Create or Update that would store
\* a price <= 0 is rejected and writes nothing.
C5_StoredPricePositive ==
    /\ \A i \in DOMAIN items : items[i].price # NULL /\ items[i].price[1] > 0
    /\ BadPrice => resp.status >= 400 /\ items = pre.items

\* C6: a List that succeeds returns at most 100 records; a limit above 100
\* is answered 422; and with MaxStored (150) records stored and limit=100 the
\* response is the 100 records after the first offset ones, in insertion
\* order.
C6_ListAtMostMaxLimit ==
    req.op = "list" =>
        /\ resp.status = 200 => Len(resp.body) <= MaxLimit
        /\ req.limit > MaxLimit => resp.status = 422
        /\ ( /\ Cardinality(DOMAIN Before) = MaxStored
             /\ req.limit = MaxLimit
             /\ req.offset \in 0..(MaxStored - MaxLimit) ) =>
               /\ resp.status = 200
               /\ Len(resp.body) = MaxLimit
               /\ \A k \in 1..MaxLimit : resp.body[k].id = req.offset + k

\* C7: a Delete that succeeds removes the record; from then on a Get and a
\* Delete of that id are answered 404; and only a Create brings an id into
\* the table.
C7_DeletedStaysGone ==
    /\ (req.op = "delete" /\ req.id \in DOMAIN Before /\ resp.status = 200) =>
           req.id \notin DOMAIN After
    /\ (req.op \in {"get", "delete"} /\ req.id \in gone /\ req.id \notin DOMAIN Before) =>
           resp.status = 404
    /\ req.op \in {"list", "get", "update", "delete"} =>
           DOMAIN After \subseteq DOMAIN Before

\* A request that holds a session: from get_session's yield to its exit.
InHandler(r) ==
    pc[r] \in {"check_username", "check_email", "commit", "get", "delete", "exit"}

\* C8: a request runs on exactly one session, its own, which is open while
\* the handler runs and closed once the request has responded, on every exit
\* path (404, 400, a failed commit, a return); no session belongs to two
\* requests and none stays open without a request.
C8_SessionScopedToRequest ==
    /\ \A r \in Requests : InHandler(r) => sess[r] \in open
    /\ \A r \in Requests : pc[r] = "done" => sess[r] # 0 /\ sess[r] \notin open
    /\ \A r1, r2 \in Requests : r1 # r2 /\ sess[r1] # 0 => sess[r1] # sess[r2]
    /\ open \subseteq {sess[r] : r \in {q \in Requests : InHandler(q)}}

\* A request whose commit failed has responded while another still runs.
C8_Witness ==
    \E r1, r2 \in Requests :
        /\ pc[r1] = "done" /\ cresp[r1] = 500 /\ sess[r1] \notin open
        /\ InHandler(r2)

\* C9: of concurrent Create User requests with the same username (or email)
\* at most one stores a user, and the other is answered 400, never another
\* failure.
C9_ConcurrentDuplicateIs400 ==
    /\ NoSharedUnique(users)
    /\ \A r \in Requests :
          pc[r] = "done" /\ creq[r].op = "create" => cresp[r] \in {201, 400}

\* The Get of id, as its router answers it now.
GetNow(id) ==
    IF router = "items" THEN read_item(items, id).resp ELSE read_user(users, id).resp

\* C10: a Create of an Item or a User that succeeds stores, and returns,
\* every non-secret field of the payload with the payload's value, under a
\* new id; a Get of that id returns the same projection.
C10_CreateKeepsPayload ==
    (router \in {"items", "users"} /\ req.op = "create" /\ resp.status = 201) =>
        LET public == resp.body[1]
        IN /\ public.id \in DOMAIN After \ DOMAIN Before
           /\ \A f \in DOMAIN req.body \ {"password"} :
                 public[f] = req.body[f] /\ After[public.id][f] = req.body[f]
           /\ GetNow(public.id).body = resp.body

====
